---- MODULE Spec2Model ----
(***************************************************************************)
(* State-machine model of createRedisPool (src/src/redis-pooling.ts): the  *)
(* registry poolMap of per-database-index pools, the generic-pool          *)
(* acquire / release / destroy / drain / clear discipline the manager      *)
(* delegates to, the ioredis client fields the manager reads (status, the  *)
(* selected database) and the callers that borrow connections.             *)
(***************************************************************************)
EXTENDS Integers, Sequences, FiniteSets, TLC

\* ------------------------------------------------------------------ bounds
MaxDb == 1              \* database indexes 0..MaxDb
NumBorrowers == 2       \* concurrent borrow sessions (acquire, use, release)
MaxConns == 2           \* clients factory.create may build in one behaviour
MaxPools == 2           \* pools createSingleDbPool may build in one behaviour
MaxMax == 2             \* config.max ranges over 1..MaxMax
MaxKeys == 2            \* the keys a scan may deliver are 1..MaxKeys
MaxBatch == 2           \* keys one scan round delivers at most
MaxRounds == 3          \* rounds of one scan
MaxCalls == 3           \* getKeys / deleteKeys calls made one after the other

Partitions == 0..MaxDb
Borrowers == 1..NumBorrowers
Conns == 1..MaxConns

\* `dbIndex ?? 0` in acquire
FallbackIndex == 0

VARIABLES
  cfg,        \* config: [db, max, testOnBorrow]
  poolId,     \* poolMap: index -> pool instance number, 0 = no entry
  nextPool,   \* pools built so far (instance numbers grow with insertion order)
  draining,   \* pool._draining
  avail,      \* pool._availableObjects (FIFO)
  loans,      \* pool._resourceLoans
  waiting,    \* pool._waitingClientsQueue (callers, FIFO)
  orphan,     \* a drain().then(clear) chain whose destroy already timed out
  lapsed,     \* history: the clients on loan from the pool when destroy last timed
              \* out on it
  created,    \* clients built so far; client ids are 1..created
  home,       \* client._originalDbIndex
  sel,        \* the database the client has selected
  status,     \* client.status
  held,       \* caller -> clients acquire returned to it and it has not released
  req,        \* caller -> its pending acquire call
  dpc,        \* destroy: "idle" or "racing" (awaiting Promise.race)
  dcur,       \* destroy: the index whose pool is being drained (0 when idle); the
              \* iterator stands at that entry
  dh,         \* destroy, history: what held since the running call started
  last,       \* the step that produced this state
  store,      \* the server: database -> the keys in it; a key is named after the
              \* index the client that wrote it was acquired for
  made,       \* the call createRedisPool(config): [url, state], state "new" (not
              \* yet run), "ok" (returned the manager) or "failed" (threw)
  scan        \* one call of client.getKeys / client.deleteKeys, see NoScan

vars == <<cfg, poolId, nextPool, draining, avail, loans, waiting, orphan, lapsed, created,
          home, sel, status, held, req, dpc, dcur, dh, last, store, made, scan>>

poolVars == <<poolId, nextPool, draining, avail, loans, waiting, orphan, lapsed>>
connVars == <<created, home, sel, status>>
destroyVars == <<dpc, dcur>>
\* what lies outside the manager's operations: the server's keys and the call
\* that made the manager
outerVars == <<store, made, scan>>

\* ------------------------------------------------------------------ helpers
SeqToSet(s) == {s[i] : i \in 1..Len(s)}

\* size0 / loans0: history, the pool's size and its number of loans when the
\* call was made (kept only for a call that is noted, 0 otherwise)
NoReq == [pc |-> "idle", given |-> FALSE, arg |-> 0, index |-> 0, size0 |-> 0, loans0 |-> 0]

Ev(op, b, c, p, res) ==
  [op |-> op, b |-> b, c |-> c, p |-> p, res |-> res, st |-> "", ok |-> TRUE,
   size0 |-> 0, loans0 |-> 0, probe |-> ""]

\* acquire has resolved for caller b with client c; size0 / loans0 are what its
\* call noted, probe how the ping of factory.validate ended ("" when validate
\* was not called)
EvAcquired(b, c, p, res, size0, loans0, probe) ==
  [op |-> "acquired", b |-> b, c |-> c, p |-> p, res |-> res, st |-> "", ok |-> TRUE,
   size0 |-> size0, loans0 |-> loans0, probe |-> probe]

\* the outcome of a release: st is the client.status it read, ok whether the
\* client.select it issued (if any) succeeded
EvRelease(b, c, p, res, st, ok) ==
  [op |-> "release", b |-> b, c |-> c, p |-> p, res |-> res, st |-> st, ok |-> ok,
   size0 |-> 0, loans0 |-> 0, probe |-> ""]

\* factory.validate has said false of client c of pool p and the pool has
\* destroyed it: st is the client.status it read, probe how its ping ended
EvEvicted(c, p, st, probe) ==
  [op |-> "evicted", b |-> 0, c |-> c, p |-> p, res |-> "", st |-> st, ok |-> FALSE,
   size0 |-> 0, loans0 |-> 0, probe |-> probe]

\* a step no property looks back at
Other == Ev("other", 0, 0, 0, "")

\* pool.size: every client the pool owns
PoolAll(p) == SeqToSet(avail[p]) \cup loans[p]

Registered(p) == poolId[p] # 0

\* the callers that hold client c
Holders(c) == {b \in Borrowers : c \in held[b]}

\* History of the running destroy call, kept until the step after it ends:
\*   quiet  nothing was borrowed or queued when it was called and no caller's
\*          operation ran since
\*   lone   nothing was borrowed when it was called and no caller's operation
\*          ran since (an acquire may still have been queued)
\*   retry  the indexes whose pool an earlier destroy had timed out on with
\*          clients borrowed
\*   idle   (while quiet) the clients that were idle in a pool when it was called
\*   held   the clients borrowed when it was called and not released since
\*   free   the indexes registered when it was called whose pool had nothing
\*          borrowed or queued then, and that no acquire asked for since
DhNone == [quiet |-> FALSE, lone |-> FALSE, retry |-> {}, idle |-> {}, held |-> {},
           free |-> {}, fresh |-> {}]

\* A step that is no part of destroy and no caller's operation.
DhKeep == dh' = IF dpc = "idle" THEN DhNone ELSE dh

\* acquire ran for index
DhCall(index) ==
  dh' = IF dpc = "idle" THEN DhNone
        ELSE [quiet |-> FALSE, lone |-> FALSE, retry |-> dh.retry, idle |-> {},
              held |-> dh.held, free |-> dh.free \ {index}, fresh |-> dh.fresh]

\* acquire ran for index and remembers the pool it registered (history)
DhCallNoted(index, registered) ==
  dh' = IF dpc = "idle" THEN DhNone
        ELSE [quiet |-> FALSE, lone |-> FALSE, retry |-> dh.retry, idle |-> {},
              held |-> dh.held, free |-> dh.free \ {index},
              fresh |-> IF registered THEN dh.fresh \cup {index} ELSE dh.fresh]

\* release ran for client c
DhRelease(c) ==
  dh' = IF dpc = "idle" THEN DhNone
        ELSE [quiet |-> FALSE, lone |-> FALSE, retry |-> dh.retry, idle |-> {},
              held |-> dh.held \ {c}, free |-> dh.free, fresh |-> dh.fresh]

\* a pool that builds a client for every queued acquire it has no idle client
\* for, whatever its size
WantedUnbounded(av, ln, wt, p) ==
  LET shortfall == Len(wt[p]) - Len(av[p])
  IN  IF shortfall > 0 THEN shortfall ELSE 0

\* pools that share one bound: max caps the clients of all indexes together
WantedShared(av, ln, wt, p) ==
  LET shortfall == Len(wt[p]) - Len(av[p])
      all == UNION {SeqToSet(av[q]) \cup ln[q] : q \in Partitions}
      spare == cfg.max - Cardinality(all)
      m == IF spare < shortfall THEN spare ELSE shortfall
  IN  IF m > 0 THEN m ELSE 0

\* a pool that keeps one place of max unused
WantedStrict(av, ln, wt, p) ==
  LET shortfall == Len(wt[p]) - Len(av[p])
      spare == cfg.max - 1 - (Len(av[p]) + Cardinality(ln[p]))
      m == IF spare < shortfall THEN spare ELSE shortfall
  IN  IF m > 0 THEN m ELSE 0

\* The clients pool p still has to build for its queue: pool._dispense creates
\* min(spare capacity, shortfall) of them.
Wanted(av, ln, wt, p) ==
  LET shortfall == Len(wt[p]) - Len(av[p])
      spare == cfg.max - (Len(av[p]) + Cardinality(ln[p]))
      m == IF spare < shortfall THEN spare ELSE shortfall
  IN  IF m > 0 THEN m ELSE 0

RECURSIVE SumWanted(_, _, _, _)
SumWanted(av, ln, wt, ps) ==
  IF ps = {} THEN 0
  ELSE LET p == CHOOSE q \in ps : TRUE
       IN  Wanted(av, ln, wt, p) + SumWanted(av, ln, wt, ps \ {p})

\* The bound on clients: a behaviour takes no step after which the pools would
\* have to build more clients than MaxConns allows, so that no caller is left
\* queued only because the model has run out of clients.
WithinBudget(av, ln, wt) == created + SumWanted(av, ln, wt, Partitions) <= MaxConns

\* ------------------------------------------------------------------ the manager's pure parts
\* acquire: const index = dbIndex ?? 0
EffectiveIndex(given, arg) == IF given THEN arg ELSE FallbackIndex

\* a factory that hands every caller the client it built first
NewClientShared == IF created = 0 THEN 1 ELSE created

\* factory.create: a new Redis(...) per call; ids are handed out in creation order
NewClient == created + 1

\* a factory that binds every client to the configured default (the single
\* shared pool of the earlier revision did)
OriginalDbIndexOfConfig(dbIndex) == cfg.db

\* factory.create: client._originalDbIndex = dbIndex
OriginalDbIndex(dbIndex) == dbIndex

\* release: const dbIndex = client._originalDbIndex ?? db  (create always sets it)
ReleaseIndex(c) == home[c]

\* a switch without the case for a closed client
NeedDestroyReadyOnly(st, selectOk) ==
  CASE st = "ready" -> ~selectOk
    [] OTHER        -> FALSE

\* a switch that ignores a failed select
NeedDestroyClosedOnly(st, selectOk) == st \in {"end", "close"}

\* a switch whose default branch gives the client up
NeedDestroyUnlessReady(st, selectOk) ==
  CASE st = "ready" -> ~selectOk
    [] OTHER        -> TRUE

\* release: the switch on client.status; selectOk is the outcome of client.select
NeedDestroy(st, selectOk) ==
  CASE st \in {"end", "close"} -> TRUE
    [] st = "ready"            -> ~selectOk
    [] OTHER                   -> FALSE

\* a release that takes an absent client for a client
HasClientAlways(c) == TRUE

\* release: if (client); 0 stands for undefined
HasClient(c) == c # 0

\* release: the ready case of the switch issues client.select(dbIndex)
SelectIssued(st) == st = "ready"

\* The client.status a release may read on a client it does not hold. A client
\* that was quit answers quit() before its socket closes, and turns "end" only
\* then: a release that comes right after reads "ready" still.
StatusSeen(c) == IF status[c] = "end" THEN {"end", "ready"} ELSE {status[c]}

\* a release that goes back to the configured default database
SelectedDefault(st, cur, dbIndex, selectOk) ==
  IF st = "ready" /\ selectOk THEN cfg.db ELSE cur

\* a release that selects nothing
SelectedKept(st, cur, dbIndex, selectOk) == cur

\* release: the database selected once the switch is through
SelectedAfterRelease(st, cur, dbIndex, selectOk) ==
  IF st = "ready" /\ selectOk THEN dbIndex ELSE cur

\* a validator that goes by the ping alone
ValidateProbeOnly(st, probe) == probe = "ok"

\* a validator that finds every client fit
ValidateAlways(st, probe) == TRUE

\* factory.validate: probe is how Promise.race([client.ping(), timeout]) ended
Validate(st, probe) ==
  IF probe = "ok" THEN st = "ready" ELSE FALSE

\* a factory.destroy that leaves the client open
QuitNothing(st, cs) == st

\* pool.clear() / pool.destroy(client): factory.destroy quits the client
Quit(st, cs) == [c \in Conns |-> IF c \in cs THEN "end" ELSE st[c]]

\* a deadline that closes what is still borrowed from the pool
DeadlineStatusForced(p) == Quit(status, loans[p])

\* destroy: the timer of Promise.race only rejects; it touches no client
DeadlineStatus(p) == status

\* a deadline that drops the entry all the same
DeadlineRegistryDeleted(p) == [poolId EXCEPT ![p] = 0]

\* destroy: after the rejection the loop is left, poolMap.delete is not reached
DeadlineRegistry(p) == poolId

\* a pool that takes nothing back
PoolAcceptsNone(p, c) == FALSE

\* a pool that turns away what is given back once it is draining
PoolAcceptsOpen(p, c) == c \in loans[p] /\ ~draining[p]

\* pool.release(client) / pool.destroy(client): the client has to be on loan from
\* the pool, whether the pool is draining or not
PoolAccepts(p, c) == c \in loans[p]

\* pool.drain(): the waiting queue has settled and every loan was returned
DrainDone(p) == waiting[p] = <<>> /\ loans[p] = {}

\* an entry deleted from poolMap whose pool object getPool would hand out again
DiscardedKept(drn, p) == drn

\* destroy: poolMap.delete(dbIndex) drops the drained pool object; the next
\* getPool(dbIndex) builds a new one, which is not draining
Discarded(drn, p) == [drn EXCEPT ![p] = FALSE]

\* destroy: for (const [dbIndex, pool] of poolMap.entries()): the entries after
\* the one last visited, in insertion order
\* an iteration over the entries there were when destroy was called
EntriesAfterSnapshot(pid, cursor) ==
  {q \in Partitions : pid[q] > cursor /\ q \notin dh.fresh}

EntriesAfter(pid, cursor) == {q \in Partitions : pid[q] > cursor}

NextEntry(pid, cursor) ==
  CHOOSE q \in EntriesAfter(pid, cursor) :
    \A r \in EntriesAfter(pid, cursor) : pid[q] <= pid[r]

\* ------------------------------------------------------------------ initial state
\* the urls a configuration may carry: none (empty) or one of a server
Urls == {"", "redis://host:6379"}

\* a constructor that takes any url
UrlGivenAlways(url) == TRUE

\* createRedisPool: if (!url) throw
UrlGiven(url) == url # ""

\* One call of client.getKeys(pattern) or client.deleteKeys(pattern):
\*   op       "" (no call yet), "getKeys" or "deleteKeys"
\*   pc       the returned promise and its stream: "idle", "streaming", "ended"
\*            (deleteKeys: the stream has ended, Promise.all(tasks) is awaited),
\*            "resolved", "rejected"
\*   rounds   history: the batches the stream delivered, in order
\*   allKeys  getKeys: const allKeys
\*   tasks    deleteKeys: const tasks, each [keys, state, n] with state "pending",
\*            "done" or "failed"; n is history: what the unlink answered
\*   count    deleteKeys: let deletedCount
\*   keysOut / countOut   what the promise resolved with
\*   errored  history: the stream emitted 'error'
\*   failed   the promise was rejected with the stream's error
\* and the database the client is on, which nobody else writes to:
\*   present  the keys in it
\*   base     the keys in it when the call was made
\*   match    the pattern of the call, as the set of keys it matches
\*   trail    history: the calls that settled before this one, each
\*            [op, match, clean, n], clean when it resolved and no unlink
\*            failed, n the number of keys or the count it resolved with
NoScan ==
  [op |-> "", pc |-> "idle", rounds |-> <<>>, allKeys |-> <<>>, tasks |-> <<>>,
   count |-> 0, keysOut |-> <<>>, countOut |-> 0, errored |-> FALSE, failed |-> FALSE,
   present |-> {}, base |-> {}, match |-> {}, trail |-> <<>>]

\* Everything but the call that makes the manager: the configuration read with
\* its defaults, an empty poolMap, no client, no caller at work.
InitBody ==
  /\ cfg \in [db : Partitions, max : 1..MaxMax, testOnBorrow : BOOLEAN]
  /\ poolId = [p \in Partitions |-> 0]
  /\ nextPool = 0
  /\ draining = [p \in Partitions |-> FALSE]
  /\ avail = [p \in Partitions |-> <<>>]
  /\ loans = [p \in Partitions |-> {}]
  /\ waiting = [p \in Partitions |-> <<>>]
  /\ orphan = [p \in Partitions |-> FALSE]
  /\ lapsed = [p \in Partitions |-> {}]
  /\ created = 0
  /\ home = [c \in Conns |-> 0]
  /\ sel = [c \in Conns |-> 0]
  /\ status = [c \in Conns |-> "none"]
  /\ held = [b \in Borrowers |-> {}]
  /\ req = [b \in Borrowers |-> NoReq]
  /\ dpc = "idle"
  /\ dcur = 0
  /\ dh = DhNone
  /\ last = Ev("init", 0, 0, 0, "")
  /\ store = [d \in Partitions |-> {}]

\* the state after createRedisPool(config) has returned the manager
Init ==
  /\ InitBody
  /\ made = [url |-> "redis://host:6379", state |-> "ok"]
  /\ scan = NoScan

\* ------------------------------------------------------------------ acquire
\* acquire(dbIndex?) up to the await: getPool, then pool.acquire() either rejects
\* (the pool is draining) or queues the caller. A borrower is one borrow session:
\* it asks for its next client once it has given the last one back. With noted
\* set the call remembers the pool's size and number of loans (history).
AcquireCallAs(b, given, arg, noted) ==
  LET index == EffectiveIndex(given, arg)
      fresh == poolId[index] = 0
  IN  /\ req[b].pc = "idle"
      /\ held[b] = {}
      /\ given \/ arg = 0
      /\ fresh => nextPool < MaxPools
      /\ poolId' = IF fresh THEN [poolId EXCEPT ![index] = nextPool + 1] ELSE poolId
      /\ nextPool' = IF fresh THEN nextPool + 1 ELSE nextPool
      /\ IF draining[index]
           THEN /\ last' = Ev("acquire", b, 0, index, "draining")
                /\ UNCHANGED <<waiting, req>>
           ELSE /\ waiting' = [waiting EXCEPT ![index] = Append(@, b)]
                /\ req' = [req EXCEPT ![b] = [pc |-> "waiting", given |-> given,
                                              arg |-> arg, index |-> index,
                                              size0 |-> IF noted
                                                THEN Cardinality(PoolAll(index)) ELSE 0,
                                              loans0 |-> IF noted
                                                THEN Cardinality(loans[index]) ELSE 0]]
                /\ last' = IF fresh THEN Ev("acquire", b, 0, index, "fresh") ELSE Other
      /\ WithinBudget(avail, loans, waiting')
      /\ IF noted THEN DhCallNoted(index, fresh) ELSE DhCall(index)
      /\ UNCHANGED <<cfg, outerVars, draining, avail, loans, orphan, lapsed, connVars, held, destroyVars>>

AcquireCall(b, given, arg) == AcquireCallAs(b, given, arg, FALSE)

AcquireNoted(b, given, arg) == AcquireCallAs(b, given, arg, TRUE)

\* pool._dispense -> _createResource: a waiting caller, nothing to give it, room left
Create(p) ==
  /\ Registered(p)
  /\ Wanted(avail, loans, waiting, p) > 0
  /\ created' = NewClient
  /\ home' = [home EXCEPT ![NewClient] = OriginalDbIndex(p)]
  /\ sel' = [sel EXCEPT ![NewClient] = p]
  /\ status' = [status EXCEPT ![NewClient] = "connecting"]
  /\ avail' = [avail EXCEPT ![p] = Append(@, NewClient)]
  /\ last' = Other
  /\ DhKeep
  /\ UNCHANGED <<cfg, outerVars, poolId, nextPool, draining, loans, waiting, orphan, lapsed, held, req,
                 destroyVars>>

\* pool._dispense -> (_testOnBorrow ->) _dispatchPooledResourceToNextWaitingClient:
\* the head of the available clients goes to the head of the queue, or is evicted
\* when testOnBorrow is set and factory.validate says false. With noted set an
\* eviction remembers what validate saw (history).
DispatchAs(p, probe, noted) ==
  /\ Registered(p)
  /\ waiting[p] # <<>>
  /\ avail[p] # <<>>
  /\ LET c == Head(avail[p])
         b == Head(waiting[p])
     IN  IF cfg.testOnBorrow => Validate(status[c], probe)
           THEN /\ avail' = [avail EXCEPT ![p] = Tail(@)]
                /\ loans' = [loans EXCEPT ![p] = @ \cup {c}]
                /\ waiting' = [waiting EXCEPT ![p] = Tail(@)]
                /\ held' = [held EXCEPT ![b] = @ \cup {c}]
                /\ last' = EvAcquired(b, c, req[b].index,
                                      IF req[b].given THEN "given" ELSE "default",
                                      req[b].size0, req[b].loans0,
                                      IF cfg.testOnBorrow THEN probe ELSE "")
                /\ req' = [req EXCEPT ![b] = NoReq]
                /\ UNCHANGED status
           ELSE /\ avail' = [avail EXCEPT ![p] = Tail(@)]
                /\ status' = Quit(status, {c})
                /\ last' = IF noted THEN EvEvicted(c, p, status[c], probe) ELSE Other
                /\ WithinBudget(avail', loans, waiting)
                /\ UNCHANGED <<loans, waiting, held, req>>
  /\ DhKeep
  /\ UNCHANGED <<cfg, outerVars, poolId, nextPool, draining, orphan, lapsed, created, home, sel, destroyVars>>

Dispatch(p, probe) == DispatchAs(p, probe, FALSE)

DispatchNoted(p, probe) == DispatchAs(p, probe, TRUE)

\* ------------------------------------------------------------------ the caller's use of a client
\* client.select(q) by the caller that holds the client
Select(b, c, q) ==
  /\ c \in held[b]
  /\ status[c] = "ready"
  /\ q # sel[c]
  /\ sel' = [sel EXCEPT ![c] = q]
  /\ last' = Other
  /\ DhKeep
  /\ UNCHANGED <<cfg, outerVars, poolVars, created, home, status, held, req, destroyVars>>

\* client.quit() / client.disconnect() by the caller that holds the client
CallerQuit(b, c) ==
  /\ c \in held[b]
  /\ status[c] # "end"
  /\ status' = Quit(status, {c})
  /\ last' = Other
  /\ DhKeep
  /\ UNCHANGED <<cfg, outerVars, poolVars, created, home, sel, held, req, destroyVars>>

\* the index of the pool client c is on loan from: the index it was acquired for
LoanIndex(c) == CHOOSE p \in Partitions : c \in loans[p]

\* a command that writes a key (set, hset, ...) by the caller that holds the
\* client: it runs in the database the client has selected (with
\* enableOfflineQueue it is queued until the client is up)
Write(b, c) ==
  /\ c \in held[b]
  /\ status[c] # "end"
  /\ \E p \in Partitions : c \in loans[p]
  /\ LoanIndex(c) \notin store[sel[c]]
  /\ store' = [store EXCEPT ![sel[c]] = @ \cup {LoanIndex(c)}]
  /\ last' = Other
  /\ DhKeep
  /\ UNCHANGED <<cfg, poolVars, connVars, held, req, destroyVars, made, scan>>

\* ioredis: the connection comes up, drops, and is retried. retryStrategy always
\* returns a delay, so a dropped client goes through "close" to "reconnecting"
\* within one synchronous handler and no caller ever reads "close"; it keeps the
\* selected database over the reconnect. "connecting" stands for every status
\* that is neither ready nor closed (connecting, connect, reconnecting).
NextStatus(st) ==
  CASE st = "connecting" -> "ready"
    [] st = "ready"      -> "connecting"
    [] OTHER             -> st

\* a handler that takes the client off its loan
ClientOnErrorDrop(ln, c) == [p \in DOMAIN ln |-> ln[p] \ {c}]

\* client.on('error'): process.emitWarning and nothing else; ln are the loans
ClientOnError(ln, c) == ln

\* A drop comes with the 'error' event of the client, which its handler takes.
ConnEvent(c) ==
  /\ c <= created
  /\ status[c] \notin {"end", "none"}
  /\ status' = [status EXCEPT ![c] = NextStatus(@)]
  /\ loans' = IF status[c] = "ready" THEN ClientOnError(loans, c) ELSE loans
  /\ last' = Other
  /\ DhKeep
  /\ UNCHANGED <<cfg, outerVars, poolId, nextPool, draining, avail, waiting, orphan, lapsed,
                 created, home, sel, held, req, destroyVars>>

\* ------------------------------------------------------------------ release
\* release(client): the status switch (with its select), then poolMap.get and
\* pool.destroy(client) or pool.release(client). Both generic-pool calls reject
\* a client that is not on loan.
Release(b, c, selectOk) ==
  LET dbIndex == ReleaseIndex(c)
      needDestroy == NeedDestroy(status[c], selectOk)
      onLoan == PoolAccepts(dbIndex, c)
  IN  /\ c \in held[b]
      /\ selectOk \/ status[c] = "ready"
      /\ held' = [held EXCEPT ![b] = @ \ {c}]
      /\ sel' = [sel EXCEPT ![c] = SelectedAfterRelease(status[c], @, dbIndex, selectOk)]
      /\ IF ~Registered(dbIndex)
           THEN /\ last' = EvRelease(b, c, dbIndex, "nopool", status[c], selectOk)
                /\ UNCHANGED <<loans, avail, status>>
           ELSE IF ~onLoan
           THEN /\ last' = EvRelease(b, c, dbIndex, "error", status[c], selectOk)
                /\ UNCHANGED <<loans, avail, status>>
           ELSE IF needDestroy
           THEN /\ loans' = [loans EXCEPT ![dbIndex] = @ \ {c}]
                /\ status' = Quit(status, {c})
                /\ last' = EvRelease(b, c, dbIndex, "destroyed", status[c], selectOk)
                /\ WithinBudget(avail, loans', waiting)
                /\ UNCHANGED avail
           ELSE /\ loans' = [loans EXCEPT ![dbIndex] = @ \ {c}]
                /\ avail' = [avail EXCEPT ![dbIndex] = Append(@, c)]
                /\ last' = EvRelease(b, c, dbIndex, "returned", status[c], selectOk)
                /\ UNCHANGED status
      /\ DhRelease(c)
      /\ UNCHANGED <<cfg, outerVars, poolId, nextPool, draining, waiting, orphan, lapsed, created, home,
                     req, destroyVars>>

\* release(client?) by a caller that holds no such client: with nothing
\* (undefined), or with a client it has given back before. seen is the status
\* the switch reads; a select on a client that was quit fails. The switch runs
\* before poolMap.get; with a pool found, pool.release / pool.destroy reject the
\* client, which is not on loan, and release rejects.
ReleaseOther(c, seen, selectOk) ==
  /\ c \in 0..created
  /\ c # 0 => /\ Holders(c) = {}
              /\ seen \in StatusSeen(c)
              /\ selectOk \/ seen = "ready"
              /\ status[c] = "end" => ~(SelectIssued(seen) /\ selectOk)
  /\ c = 0 => seen = "end" /\ selectOk
  /\ IF ~HasClient(c)
       THEN /\ last' = EvRelease(0, 0, 0, "noclient", "", TRUE)
            /\ DhKeep
            /\ UNCHANGED sel
       ELSE IF c = 0
       THEN /\ last' = EvRelease(0, 0, 0, "error", "", TRUE)
            /\ DhKeep
            /\ UNCHANGED sel
       ELSE LET dbIndex == ReleaseIndex(c)
            IN  /\ sel' = [sel EXCEPT
                             ![c] = SelectedAfterRelease(seen, @, dbIndex, selectOk)]
                /\ last' = EvRelease(0, c, dbIndex,
                                     IF Registered(dbIndex) THEN "error" ELSE "nopool",
                                     seen, selectOk)
                /\ DhRelease(c)
  /\ UNCHANGED <<cfg, outerVars, poolVars, created, home, status, held, req, destroyVars>>

\* ------------------------------------------------------------------ destroy
\* The loop of destroy from one `await Promise.race` to the next: the iterator
\* takes the next entry of poolMap; with none left destroy resolves, otherwise
\* pool.drain() is called on it (which sets _draining) and the race is awaited.
\* pid / drn are the registry and the _draining flags as the loop finds them.
\* a loop that awaits the race without having called pool.drain()
LoopStepNoDrain(pid, drn, cursor) ==
  IF EntriesAfter(pid, cursor) = {}
    THEN /\ dpc' = "idle"
         /\ draining' = drn
         /\ last' = Ev("destroy", 0, 0, 0, "ok")
         /\ dcur' = 0
    ELSE /\ dpc' = "racing"
         /\ dcur' = NextEntry(pid, cursor)
         /\ draining' = drn
         /\ last' = Other

LoopStep(pid, drn, cursor) ==
  IF EntriesAfter(pid, cursor) = {}
    THEN /\ dpc' = "idle"
         /\ draining' = drn
         /\ last' = Ev("destroy", 0, 0, 0, "ok")
         /\ dcur' = 0
    ELSE LET n == NextEntry(pid, cursor)
         IN  /\ dpc' = "racing"
             /\ dcur' = n
             /\ draining' = [drn EXCEPT ![n] = TRUE]
             /\ last' = Other

\* destroy(timeoutMs) is called
DestroyStart ==
  /\ dpc = "idle"
  /\ LoopStep(poolId, draining, 0)
  /\ dh' = LET quiet == \A p \in Partitions : waiting[p] = <<>> /\ loans[p] = {}
            IN  [quiet |-> quiet,
                 lone |-> \A p \in Partitions : loans[p] = {},
                 retry |-> {p \in Partitions : Registered(p) /\ lapsed[p] # {}},
                 idle |-> IF quiet THEN UNION {SeqToSet(avail[p]) : p \in Partitions}
                          ELSE {},
                 held |-> UNION {held[b] : b \in Borrowers},
                 free |-> {p \in Partitions :
                             Registered(p) /\ waiting[p] = <<>> /\ loans[p] = {}},
                 fresh |-> {}]
  /\ UNCHANGED <<cfg, outerVars, poolId, nextPool, avail, loans, waiting, orphan, lapsed, connVars, held, req>>

\* drain() and clear() won the race: the idle clients are quit, the entry is
\* deleted and the loop goes on.
DestroyDrained ==
  /\ dpc = "racing"
  /\ DrainDone(dcur)
  /\ status' = Quit(status, SeqToSet(avail[dcur]))
  /\ avail' = [avail EXCEPT ![dcur] = <<>>]
  /\ poolId' = [poolId EXCEPT ![dcur] = 0]
  /\ orphan' = [orphan EXCEPT ![dcur] = FALSE]
  /\ lapsed' = [lapsed EXCEPT ![dcur] = {}]
  /\ LoopStep(poolId', Discarded(draining, dcur), poolId[dcur])
  /\ UNCHANGED <<cfg, outerVars, nextPool, loans, waiting, created, home, sel, held, req, dh>>

\* Pool p has work that runs in promise continuations, ahead of any timer:
\* building a client for its queue (factory.create awaits nothing) and, without
\* testOnBorrow, handing an available client to the head of the queue.
Settling(p) ==
  /\ Registered(p)
  /\ waiting[p] # <<>>
  /\ \/ Wanted(avail, loans, waiting, p) > 0
     \/ avail[p] # <<>> /\ ~cfg.testOnBorrow

\* the timer won the race: destroy rejects, naming dcur. The drain().then(clear)
\* chain stays pending on the pool. The timer fires only once the promise
\* continuations have run, and timeoutMs is taken to be longer than clear()
\* needs to quit idle clients: it fires only on a drain that is still waiting.
DestroyTimeout ==
  /\ dpc = "racing"
  /\ ~DrainDone(dcur)
  /\ \A p \in Partitions : ~Settling(p)
  /\ dpc' = "idle"
  /\ dcur' = 0
  /\ status' = DeadlineStatus(dcur)
  /\ poolId' = DeadlineRegistry(dcur)
  /\ orphan' = [orphan EXCEPT ![dcur] = TRUE]
  /\ lapsed' = [lapsed EXCEPT ![dcur] = loans[dcur]]
  /\ last' = Ev("destroy", 0, 0, dcur, "timeout")
  /\ UNCHANGED <<cfg, outerVars, nextPool, draining, avail, loans, waiting, created, home, sel,
                 held, req, dh>>

\* the chain of a timed-out destroy gets through drain() and runs clear()
OrphanClear(p) ==
  /\ Registered(p)
  /\ orphan[p]
  /\ DrainDone(p)
  /\ status' = Quit(status, SeqToSet(avail[p]))
  /\ avail' = [avail EXCEPT ![p] = <<>>]
  /\ orphan' = [orphan EXCEPT ![p] = FALSE]
  /\ last' = Other
  /\ UNCHANGED lapsed
  /\ DhKeep
  /\ UNCHANGED <<cfg, outerVars, poolId, nextPool, draining, loans, waiting, created, home, sel,
                 held, req, destroyVars>>

\* ------------------------------------------------------------------ specification
Probes == {"ok", "error", "timeout"}

Next ==
  \/ \E b \in Borrowers, given \in BOOLEAN, arg \in Partitions : AcquireCall(b, given, arg)
  \/ \E p \in Partitions : Create(p)
  \/ \E p \in Partitions, probe \in Probes : Dispatch(p, probe)
  \/ \E b \in Borrowers, c \in Conns, q \in Partitions : Select(b, c, q)
  \/ \E b \in Borrowers, c \in Conns : CallerQuit(b, c)
  \/ \E c \in Conns : ConnEvent(c)
  \/ \E b \in Borrowers, c \in Conns, selectOk \in BOOLEAN : Release(b, c, selectOk)
  \/ DestroyStart
  \/ DestroyDrained
  \/ DestroyTimeout
  \/ \E p \in Partitions : OrphanClear(p)

Spec == Init /\ [][Next]_vars

\* Borrowers that acquire, select, close and release while nobody calls destroy.
NextUse ==
  \/ \E b \in Borrowers, given \in BOOLEAN, arg \in Partitions : AcquireCall(b, given, arg)
  \/ \E p \in Partitions : Create(p)
  \/ \E p \in Partitions, probe \in Probes : Dispatch(p, probe)
  \/ \E b \in Borrowers, c \in Conns, q \in Partitions : Select(b, c, q)
  \/ \E b \in Borrowers, c \in Conns : CallerQuit(b, c)
  \/ \E c \in Conns : ConnEvent(c)
  \/ \E b \in Borrowers, c \in Conns, selectOk \in BOOLEAN : Release(b, c, selectOk)

SpecUse == Init /\ [][NextUse]_vars

\* config.db plays no part in what follows (every client has its
\* _originalDbIndex), so it is left at 0.
InitStale == Init /\ cfg.db = 0

\* Acquire, close, release and destroy by callers that issue no select
\* themselves: the database a client has selected plays no part in destroy.
NextDrain ==
  \/ \E b \in Borrowers, given \in BOOLEAN, arg \in Partitions : AcquireCall(b, given, arg)
  \/ \E p \in Partitions : Create(p)
  \/ \E p \in Partitions, probe \in Probes : Dispatch(p, probe)
  \/ \E b \in Borrowers, c \in Conns : CallerQuit(b, c)
  \/ \E c \in Conns : ConnEvent(c)
  \/ \E b \in Borrowers, c \in Conns, selectOk \in BOOLEAN : Release(b, c, selectOk)
  \/ DestroyStart
  \/ DestroyDrained
  \/ DestroyTimeout
  \/ \E p \in Partitions : OrphanClear(p)

SpecDrain == InitStale /\ [][NextDrain]_vars

\* Callers that also call release with what they do not hold.
NextStale ==
  \/ NextDrain
  \/ \E c \in 0..MaxConns, seen \in {"connecting", "ready", "end"}, selectOk \in BOOLEAN :
       ReleaseOther(c, seen, selectOk)

SpecStale == InitStale /\ [][NextStale]_vars

\* Borrowers that acquire, close and release while nobody calls destroy, with
\* the steps the program is bound to take: a pool builds the client its queue
\* needs (pool._dispense runs inside acquire and release), a client that is down
\* comes up again (retryStrategy always returns a delay, so ioredis retries for
\* ever), and a pool whose head client is fit again and again hands it to the
\* head of its queue.
ConnUp(c) == status[c] = "connecting" /\ ConnEvent(c)

HandOut(p) == \E probe \in Probes : Dispatch(p, probe) /\ waiting'[p] # waiting[p]

NextLive ==
  \/ \E b \in Borrowers, given \in BOOLEAN, arg \in Partitions : AcquireCall(b, given, arg)
  \/ \E p \in Partitions : Create(p)
  \/ \E p \in Partitions, probe \in Probes : Dispatch(p, probe)
  \/ \E b \in Borrowers, c \in Conns : CallerQuit(b, c)
  \/ \E c \in Conns : ConnEvent(c)
  \/ \E b \in Borrowers, c \in Conns, selectOk \in BOOLEAN : Release(b, c, selectOk)

SpecLive ==
  /\ InitStale
  /\ [][NextLive]_vars
  /\ \A p \in Partitions : WF_vars(Create(p)) /\ SF_vars(HandOut(p))
  /\ \A c \in Conns : WF_vars(ConnUp(c))

\* Borrowers that write keys through the clients they hold and issue no select
\* themselves; nobody calls destroy.
NextKeys ==
  \/ \E b \in Borrowers, given \in BOOLEAN, arg \in Partitions : AcquireCall(b, given, arg)
  \/ \E p \in Partitions : Create(p)
  \/ \E p \in Partitions, probe \in Probes : Dispatch(p, probe)
  \/ \E b \in Borrowers, c \in Conns : Write(b, c)
  \/ \E b \in Borrowers, c \in Conns : CallerQuit(b, c)
  \/ \E c \in Conns : ConnEvent(c)
  \/ \E b \in Borrowers, c \in Conns, selectOk \in BOOLEAN : Release(b, c, selectOk)

SpecKeys == InitStale /\ [][NextKeys]_vars

\* The store cannot be reached (bad host, bad password, TLS mismatch): no client
\* ever comes up. new Redis(...) does not throw and factory.create awaits
\* nothing, so clients are built all the same.
NextDown ==
  \/ \E b \in Borrowers, given \in BOOLEAN, arg \in Partitions : AcquireCall(b, given, arg)
  \/ \E p \in Partitions : Create(p)
  \/ \E p \in Partitions, probe \in Probes : Dispatch(p, probe)
  \/ \E b \in Borrowers, c \in Conns : CallerQuit(b, c)
  \/ \E b \in Borrowers, c \in Conns, selectOk \in BOOLEAN : Release(b, c, selectOk)

SpecDown == InitStale /\ [][NextDown]_vars

\* From the call createRedisPool(config) on: the call throws or returns the
\* manager, and only a manager that was returned is operated.
InitNew ==
  /\ InitBody
  /\ cfg.db = 0
  /\ made \in {[url |-> u, state |-> "new"] : u \in Urls}
  /\ scan = NoScan

CreateRedisPool ==
  /\ made.state = "new"
  /\ made' = [made EXCEPT !.state = IF UrlGiven(made.url) THEN "ok" ELSE "failed"]
  /\ last' = Other
  /\ UNCHANGED <<cfg, poolVars, connVars, held, req, destroyVars, dh, store, scan>>

Operate == made.state = "ok" /\ NextLive

NextNew == CreateRedisPool \/ Operate

SpecNew == InitNew /\ [][NextNew]_vars

\* ------------------------------------------------------------------ getKeys / deleteKeys
Keys == 1..MaxKeys

\* a pattern is taken as the set of keys it matches
Patterns == SUBSET Keys

\* what one scan round may deliver: up to MaxBatch of the keys ks, none included
BatchesOf(ks) == UNION {[1..n -> ks] : n \in 0..MaxBatch}

Batches == BatchesOf(Keys)

\* a handler that keeps only the last round
PushedLast(allKeys, keys) == keys

\* getKeys, on 'data': if (keys.length) allKeys.push(...keys)
Pushed(allKeys, keys) == IF Len(keys) # 0 THEN allKeys \o keys ELSE allKeys

\* an error handler that gives up the unlinks it has issued
OnErrorCancel(sc) == [sc EXCEPT !.pc = "rejected", !.failed = TRUE, !.tasks = <<>>]

\* an error handler that hands over what was gathered so far
OnErrorPartial(sc) ==
  [sc EXCEPT !.pc = "resolved", !.keysOut = sc.allKeys, !.countOut = sc.count]

\* getKeys / deleteKeys, on 'error': reject(err)
OnError(sc) == [sc EXCEPT !.pc = "rejected", !.failed = TRUE]

\* deleteKeys, on 'data': if (keys.length) tasks.push(<the unlink of the batch>)
Tasked(tasks, keys) ==
  IF Len(keys) # 0
    THEN Append(tasks, [keys |-> keys, state |-> "pending", n |-> 0])
    ELSE tasks

\* a resolve that does not wait for the unlinks
AllSettledNoWait(tasks) == TRUE

\* await Promise.all(tasks) is through
AllSettled(tasks) == \A i \in 1..Len(tasks) : tasks[i].state # "pending"

\* a count that keeps only the answer of the last unlink
CountedLast(count, ok, n) == IF ok THEN n ELSE count

\* a count that takes in what a failing unlink removed
CountedAlways(count, ok, n) == count + n

\* deleteKeys task: deletedCount += unlinkResult, skipped when the unlink threw
Counted(count, ok, n) == IF ok THEN count + n ELSE count

\* UNLINK keys: the keys it removes from the database, when it is applied there
Unlinked(present, keys, applied) ==
  IF applied THEN present \cap SeqToSet(keys) ELSE {}

\* a scan that may end with matching keys neither delivered nor gone
ScanCompleteAny(sc) == TRUE

\* SCAN: a full iteration has returned every matching key that was there from
\* its start to its end
ScanComplete(sc) ==
  \A k \in sc.present \cap sc.match : \E r \in 1..Len(sc.rounds) : k \in SeqToSet(sc.rounds[r])

\* the settled call, as the trail keeps it
TrailEntry(sc) ==
  [op |-> sc.op, match |-> sc.match,
   clean |-> sc.pc = "resolved" /\ \A i \in 1..Len(sc.tasks) : sc.tasks[i].state = "done",
   n |-> IF sc.op = "getKeys" THEN Len(sc.keysOut) ELSE sc.countOut]

ScanFrame ==
  /\ last' = Other
  /\ UNCHANGED <<cfg, poolVars, connVars, held, req, destroyVars, dh, store, made>>

\* client.getKeys(pattern) / client.deleteKeys(pattern) is called: scanStream
ScanCall(op, match) ==
  /\ scan.pc = "idle"
  /\ scan' = [scan EXCEPT !.op = op, !.pc = "streaming", !.base = scan.present,
                          !.match = match]
  /\ ScanFrame

\* the next call on the same client, made with the same pattern when the last
\* has settled and the unlinks it issued are through: fresh locals, the same
\* database
ScanAgain(op) ==
  /\ scan.pc \in {"resolved", "rejected"}
  /\ AllSettled(scan.tasks)
  /\ Len(scan.trail) + 1 < MaxCalls
  /\ scan' = [NoScan EXCEPT !.op = op, !.pc = "streaming",
                            !.present = scan.present, !.base = scan.present,
                            !.match = scan.match,
                            !.trail = Append(scan.trail, TrailEntry(scan))]
  /\ ScanFrame

\* the stream emits 'data' with one round's keys: keys that match the pattern
\* and were there during the scan
ScanData(keys) ==
  /\ scan.pc = "streaming"
  /\ Len(scan.rounds) < MaxRounds
  /\ keys \in BatchesOf(scan.base \cap scan.match)
  /\ scan' = IF scan.op = "getKeys"
                THEN [scan EXCEPT !.rounds = Append(@, keys),
                                  !.allKeys = Pushed(@, keys)]
                ELSE [scan EXCEPT !.rounds = Append(@, keys),
                                  !.tasks = Tasked(@, keys)]
  /\ ScanFrame

\* the stream emits 'end': getKeys resolves with allKeys; deleteKeys goes on to
\* await Promise.all(tasks)
ScanEnd ==
  /\ scan.pc = "streaming"
  /\ ScanComplete(scan)
  /\ scan' = IF scan.op = "getKeys"
                THEN [scan EXCEPT !.pc = "resolved", !.keysOut = scan.allKeys]
                ELSE [scan EXCEPT !.pc = "ended"]
  /\ ScanFrame

\* the stream emits 'error' (and is destroyed: no 'data' or 'end' follows)
ScanError ==
  /\ scan.pc = "streaming"
  /\ scan' = [OnError(scan) EXCEPT !.errored = TRUE]
  /\ ScanFrame

\* the unlink of batch i settles: it answers with the number of keys it removed,
\* which is added to deletedCount, or it throws and is only warned about; a
\* command that throws may or may not have been applied to the database. Tasks
\* run on after 'end' and after 'error'.
UnlinkSettles(i, ok, applied) ==
  /\ i \in 1..Len(scan.tasks)
  /\ scan.tasks[i].state = "pending"
  /\ ok => applied
  /\ LET gone == Unlinked(scan.present, scan.tasks[i].keys, applied)
     IN scan' = [scan EXCEPT !.tasks[i].state = IF ok THEN "done" ELSE "failed",
                              !.tasks[i].n = IF ok THEN Cardinality(gone) ELSE 0,
                              !.count = Counted(@, ok, Cardinality(gone)),
                              !.present = @ \ gone]
  /\ ScanFrame

\* deleteKeys, on 'end': Promise.all(tasks) is through, resolve(deletedCount)
DeleteResolves ==
  /\ scan.pc = "ended"
  /\ AllSettled(scan.tasks)
  /\ scan' = [scan EXCEPT !.pc = "resolved", !.countOut = scan.count]
  /\ ScanFrame

NextScan ==
  \/ \E op \in {"getKeys", "deleteKeys"}, match \in Patterns : ScanCall(op, match)
  \/ \E keys \in Batches : ScanData(keys)
  \/ ScanEnd
  \/ ScanError
  \/ \E i \in 1..MaxRounds, ok \in BOOLEAN, applied \in BOOLEAN : UnlinkSettles(i, ok, applied)
  \/ DeleteResolves

InitScan ==
  /\ InitBody
  /\ cfg = [db |-> 0, max |-> 1, testOnBorrow |-> TRUE]
  /\ made = [url |-> "redis://host:6379", state |-> "ok"]
  /\ \E ks \in SUBSET Keys : scan = [NoScan EXCEPT !.present = ks]

SpecScan == InitScan /\ [][NextScan]_vars

\* Acquire, release and destroy side by side, a destroy remembering the pools
\* registered while it runs
NextRace ==
  \/ \E b \in Borrowers, given \in BOOLEAN, arg \in Partitions : AcquireNoted(b, given, arg)
  \/ \E p \in Partitions : Create(p)
  \/ \E p \in Partitions, probe \in Probes : Dispatch(p, probe)
  \/ \E c \in Conns : ConnEvent(c)
  \/ \E b \in Borrowers, c \in Conns, selectOk \in BOOLEAN : Release(b, c, selectOk)
  \/ DestroyStart
  \/ DestroyDrained
  \/ DestroyTimeout
  \/ \E p \in Partitions : OrphanClear(p)

SpecRace == InitStale /\ [][NextRace]_vars

\* The pool at work with what factory.validate saw remembered at each eviction
NextProbe ==
  \/ \E b \in Borrowers, given \in BOOLEAN, arg \in Partitions : AcquireCall(b, given, arg)
  \/ \E p \in Partitions : Create(p)
  \/ \E p \in Partitions, probe \in Probes : DispatchNoted(p, probe)
  \/ \E b \in Borrowers, c \in Conns : CallerQuit(b, c)
  \/ \E c \in Conns : ConnEvent(c)
  \/ \E b \in Borrowers, c \in Conns, selectOk \in BOOLEAN : Release(b, c, selectOk)

SpecProbe == InitStale /\ [][NextProbe]_vars

\* Calls made one after the other with one pattern, on a database where every
\* unlink succeeds
NextSweep ==
  \/ \E op \in {"getKeys", "deleteKeys"}, match \in Patterns : ScanCall(op, match)
  \/ \E op \in {"getKeys", "deleteKeys"} : ScanAgain(op)
  \/ \E keys \in Batches : ScanData(keys)
  \/ ScanEnd
  \/ ScanError
  \/ \E i \in 1..MaxRounds : UnlinkSettles(i, TRUE, TRUE)
  \/ DeleteResolves

SpecSweep == InitScan /\ [][NextSweep]_vars

\* One acquire and the release of what it returned, with nothing else done to
\* the pool meanwhile: each caller keeps to a pool of its own (caller b to index
\* b - 1), releases what it is handed as it is, and nobody calls destroy.
OwnIndex(b) == b - 1

\* acquire(OwnIndex(b)), or acquire() where that is the index it stands for
AcquireOwn(b, given) ==
  /\ given \/ OwnIndex(b) = FallbackIndex
  /\ AcquireNoted(b, given, IF given THEN OwnIndex(b) ELSE 0)

NextPair ==
  \/ \E b \in Borrowers, given \in BOOLEAN : AcquireOwn(b, given)
  \/ \E p \in Partitions : Create(p)
  \/ \E p \in Partitions, probe \in Probes : Dispatch(p, probe)
  \/ \E c \in Conns : ConnEvent(c)
  \/ \E b \in Borrowers, c \in Conns, selectOk \in BOOLEAN : Release(b, c, selectOk)

SpecPair == InitStale /\ [][NextPair]_vars

\* ------------------------------------------------------------------ properties
IdleIn(c, p) == c \in SeqToSet(avail[p])

\* C1: no client is held by two borrowers at once: a client acquire returned is
\* on loan from its home pool, idle in no pool, and returned to nobody else until
\* its holder has released it.
C1_Exclusive ==
  \A c \in Conns :
    /\ Cardinality(Holders(c)) <= 1
    /\ Holders(c) # {} =>
         /\ c \in loans[home[c]]
         /\ \A p \in Partitions : ~IdleIn(c, p)

\* C1 witness: acquire has just returned a client of a pool from which the other
\* borrower holds a client too.
C1_Witness ==
  /\ last.op = "acquired"
  /\ \E b \in Borrowers \ {last.b} : \E c \in held[b] : home[c] = last.p /\ c # last.c

\* C2 (as claimed): when release(c) has completed, c is idle in its home pool
\* with its home database selected, or it is in no pool any more.
C2_ReleaseOutcome ==
  (last.op = "release" /\ last.res \in {"returned", "destroyed"}) =>
    \/ IdleIn(last.c, last.p) /\ sel[last.c] = last.p
    \/ \A p \in Partitions : last.c \notin PoolAll(p)

\* C3 (as claimed): the client acquire(p) hands out has p selected at hand-out.
C3_HomeSelectedAtHandOut ==
  last.op = "acquired" => sel[last.c] = last.p

\* C4: the client acquire(p) returns was created for p and is on loan from the
\* pool registered under p.
C4_HomePartition ==
  last.op = "acquired" =>
    /\ home[last.c] = last.p
    /\ Registered(last.p)
    /\ last.c \in loans[last.p]
    /\ last.c \in held[last.b]

\* C4 witness: acquire(1) has returned a client while index 0 has a pool too.
C4_Witness ==
  /\ last.op = "acquired"
  /\ last.res = "given"
  /\ last.p = 1
  /\ Registered(0)

\* C5 (as claimed): acquire() without an index returns a client whose home is
\* the default index of the configuration.
C5_DefaultIndex ==
  (last.op = "acquired" /\ last.res = "default") => home[last.c] = cfg.db

\* ------------------------------------------------------------------ destroy properties
Blocked(p) == waiting[p] # <<>> \/ loans[p] # {}

DestroyEnded == last.op = "destroy"

TimedOut == last.op = "destroy" /\ last.res = "timeout"

C9_EveryFreePartitionRemoved ==
  DestroyEnded => \A p \in dh.free : ~Registered(p)

\* C10: the step in which destroy times out changes no loan, no holder and no
\* client's status: what was borrowed is still borrowed by the same borrower
\* and still open.
C10_TimeoutForcesNothing ==
  [][ (dpc = "racing" /\ dpc' = "idle" /\ last'.op = "destroy" /\ last'.res = "timeout")
        => /\ held' = held
           /\ loans' = loans
           /\ \A b \in Borrowers : \A c \in held[b] : status'[c] = status[c]
    ]_vars

\* C10 witness: destroy has timed out on an index from which a ready client is
\* borrowed.
C10_Witness ==
  /\ TimedOut
  /\ \E b \in Borrowers : \E c \in held[b] :
       home[c] = last.p /\ c \in loans[last.p] /\ status[c] = "ready"

C12_FreshPoolAfterDestroy ==
  [][ /\ \A i \in Partitions :
           (poolId[i] = 0 /\ poolId'[i] # 0) =>
             /\ poolId'[i] > nextPool
             /\ avail'[i] = <<>> /\ loans'[i] = {}
             /\ ~draining'[i]
             /\ \E b \in Borrowers :
                  req[b].pc = "idle" /\ req'[b].pc = "waiting" /\ req'[b].index = i
      /\ last'.op = "acquired" =>
           /\ poolId'[last'.p] # 0
           /\ last'.c \in loans'[last'.p]
           /\ status'[last'.c] # "end"
    ]_vars

\* C12 witness: acquire has just registered the second pool of an index whose
\* first pool, with the client it had built, a destroy had cleared and removed.
C12_Witness ==
  /\ last.op = "acquire"
  /\ last.res = "fresh"
  /\ poolId[last.p] = 2
  /\ created = 1
  /\ home[1] = last.p
  /\ status[1] = "end"

\* ------------------------------------------------------------------ release properties
\* a step in which caller b gives back client c (release is the only one)
ReleasedBy(b, c) == c \in held[b] /\ c \notin held'[b]

PoolAllNext(p) == SeqToSet(avail'[p]) \cup loans'[p]

InNoPool(c) == \A q \in Partitions : c \notin PoolAll(q)

InNoPoolNext(c) == \A q \in Partitions : c \notin PoolAllNext(q)

\* C13: the release of a borrowed client whose status is end or close takes it
\* out of its home pool, whose size goes down by one; release resolves; and a
\* client that is in no pool is never in a pool again.
C13_ClosedIsDiscarded ==
  [][ /\ \A b \in Borrowers : \A c \in Conns :
           (ReleasedBy(b, c) /\ status[c] \in {"end", "close"}) =>
             /\ last'.res = "destroyed"
             /\ InNoPoolNext(c)
             /\ Cardinality(PoolAllNext(home[c])) = Cardinality(PoolAll(home[c])) - 1
             /\ status'[c] = "end"
      /\ \A c \in 1..created : InNoPool(c) => InNoPoolNext(c)
    ]_vars

\* C13 witness: a client its holder had quit has just been released and
\* destroyed, and its pool still has another client.
C13_Witness ==
  /\ last.op = "release"
  /\ last.st = "end"
  /\ last.res = "destroyed"
  /\ InNoPool(last.c)
  /\ PoolAll(last.p) # {}

C15_FailedReselectDiscards ==
  [][ \A b \in Borrowers : \A c \in Conns :
        (ReleasedBy(b, c) /\ status[c] = "ready" /\ ~last'.ok) =>
          /\ last'.res = "destroyed"
          /\ InNoPoolNext(c)
          /\ Cardinality(PoolAllNext(home[c])) = Cardinality(PoolAll(home[c])) - 1
          /\ status'[c] = "end"
    ]_vars

\* C15 witness: a ready client whose select failed has just been released.
C15_Witness ==
  /\ last.op = "release"
  /\ last.st = "ready"
  /\ ~last.ok
  /\ InNoPool(last.c)
  /\ status[last.c] = "end"

C17_NoPoolNoPolicy ==
  (last.op = "release" /\ last.res = "nopool") => ~SelectIssued(last.st)

\* C18: release without a client resolves, and the step changes nothing: not
\* the registry, no pool, no client, no caller and not the running destroy.
C18_NoClientNoChange ==
  [][ (last'.op = "release" /\ last'.c = 0) =>
        /\ last'.res = "noclient"
        /\ UNCHANGED <<cfg, poolVars, connVars, held, req, destroyVars>>
    ]_vars

\* C18 witness: release without a client has just resolved while a client is
\* borrowed, another is idle and a destroy is running.
C18_Witness ==
  /\ last.op = "release"
  /\ last.res = "noclient"
  /\ dpc = "racing"
  /\ \E p, q \in Partitions : loans[p] # {} /\ avail[q] # <<>>

\* ------------------------------------------------------------------ pool size
\* C19: in every reachable state every partition's pool has at most cfg.max
\* clients, borrowed and idle together; the bound is per partition.
C19_AtMostMaxPerPartition ==
  \A p \in Partitions : Cardinality(PoolAll(p)) <= cfg.max

\* C19 witness: every partition's pool is at cfg.max, so that the pools together
\* have more than max clients, and an acquire is queued on a full pool.
C19_Witness ==
  /\ \A p \in Partitions : Registered(p) /\ Cardinality(PoolAll(p)) = cfg.max
  /\ \E p \in Partitions : waiting[p] # <<>> /\ avail[p] = <<>>

\* ------------------------------------------------------------------ acquire below max
\* the acquire of caller b is queued on a pool that is not draining
Queued(rq, drn, b) == rq[b].pc = "waiting" /\ ~drn[rq[b].index]

\* the acquires queued ahead of caller b's in queue q
Ahead(q, b) == Cardinality({i \in 1..Len(q) : \E j \in (i + 1)..Len(q) : q[j] = b})

\* C20 (as claimed): an acquire queued on a partition that is not being
\* destroyed, with fewer than max clients borrowed, resolves without a release:
\* as long as it is queued and the pool is not draining, fewer than max clients
\* stay borrowed.
C20_BelowMaxNoRelease ==
  [][ \A b \in Borrowers :
        ( /\ Queued(req, draining, b)
          /\ Cardinality(loans[req[b].index]) < cfg.max
          /\ Queued(req', draining', b) )
        => Cardinality(loans'[req[b].index]) < cfg.max
    ]_vars

\* caller b's acquire is queued on a pool that is not draining, and the clients
\* borrowed from it and the acquires queued ahead number fewer than max
RoomFor(rq, drn, ln, wt, b) ==
  /\ Queued(rq, drn, b)
  /\ Cardinality(ln[rq[b].index]) + Ahead(wt[rq[b].index], b) < cfg.max

\* C20 (amended): while the clients borrowed from p and the acquires queued ahead
\* number fewer than max and p is not being destroyed, acquire(p) needs no
\* release: the pool has an idle client to hand out or builds one, this stays so
\* until the acquire resolves, and the client acquire returns is held by no
\* other caller.
C20_RoomNoRelease ==
  [][ /\ \A b \in Borrowers :
           RoomFor(req, draining, loans, waiting, b) =>
             /\ Registered(req[b].index)
             /\ \/ avail[req[b].index] # <<>>
                \/ Wanted(avail, loans, waiting, req[b].index) > 0
             /\ Queued(req', draining', b) =>
                  RoomFor(req', draining', loans', waiting', b)
      /\ last'.op = "acquired" =>
           /\ last'.c \in held'[last'.b]
           /\ \A o \in Borrowers \ {last'.b} : last'.c \notin held'[o]
    ]_vars

\* C20 witness: two acquires were queued on one pool of max 2; the second has
\* just been handed the second client the pool built while the first client is
\* still borrowed by the other caller.
C20_Witness ==
  /\ cfg.max = 2
  /\ last.op = "acquired"
  /\ last.c = 2
  /\ created = 2
  /\ loans[last.p] = {1, 2}
  /\ \E o \in Borrowers \ {last.b} : held[o] = {1}
  /\ status[1] = "connecting"

\* ------------------------------------------------------------------ acquire at max
Waiting(b) == req[b].pc = "waiting"

\* an acquire of caller b is queued on a pool all of whose max clients are borrowed
QueuedAtMax(b) == Waiting(b) /\ Cardinality(loans[req[b].index]) = cfg.max

\* the last step was a release that pool p took (gave back or discarded)
ReleasedTo(p) ==
  last.op = "release" /\ last.p = p /\ last.res \in {"returned", "destroyed"}

\* the acquire of caller b is the first in the queue of its pool
FirstQueued(b) == Waiting(b) /\ Head(waiting[req[b].index]) = b

\* the acquire of caller b has resolved with a client
Served(b) == ~Waiting(b) /\ held[b] # {}

\* C21: with max clients of p borrowed a further acquire(p) stays pending as long
\* as all of them stay borrowed; once one of them is released, with no destroy,
\* the acquire that waits first in the queue is eventually served; and when
\* every caller gives back again and again what it holds, every queued acquire
\* is eventually served.
C21_WaitsThenServed ==
  /\ [][ \A b \in Borrowers :
            (QueuedAtMax(b) /\ loans[req[b].index] \subseteq loans'[req[b].index])
            => /\ req'[b] = req[b]
               /\ held'[b] = held[b]
       ]_vars
  /\ \A b \in Borrowers : (FirstQueued(b) /\ ReleasedTo(req[b].index)) ~> Served(b)
  /\ (\A a \in Borrowers : []<>(held[a] = {})) => \A b \in Borrowers : Waiting(b) ~> Served(b)

\* C21 witness: max is 1, the one client of the pool was borrowed and has just
\* been given back while another caller's acquire is queued on the pool.
C21_Witness ==
  /\ cfg.max = 1
  /\ last.op = "release"
  /\ last.res = "returned"
  /\ loans[last.p] = {}
  /\ \E b \in Borrowers \ {last.b} : waiting[last.p] = <<b>>

\* ------------------------------------------------------------------ acquire, then release
\* caller b releases the client its acquire has just returned
PairEnds(b) == last.op = "acquired" /\ last.b = b /\ ReleasedBy(b, last.c)

OperatesOn(p) ==
  \/ \E b \in Borrowers : req[b].pc = "idle" /\ req'[b].pc = "waiting" /\ req'[b].index = p
  \/ last'.op \in {"acquire", "acquired", "release"} /\ last'.p = p

\* every client of pool p is borrowed and p can build no more
Exhausted(p) == Registered(p) /\ Cardinality(loans[p]) = cfg.max

\* C23: an acquire or release on p1 leaves the borrowed and the idle clients of
\* every other index as they are, and an acquire queued on p2 whose pool has
\* room can be served (from an idle client or a new one) while another index's
\* pool is exhausted.
C23_PartitionsIndependent ==
  [][ /\ \A p1 \in Partitions :
           OperatesOn(p1) =>
             \A p2 \in Partitions \ {p1} :
               loans'[p2] = loans[p2] /\ avail'[p2] = avail[p2]
      /\ \A b \in Borrowers :
           ( /\ RoomFor(req, draining, loans, waiting, b)
             /\ \E p1 \in Partitions \ {req[b].index} : Exhausted(p1) )
           => \/ avail[req[b].index] # <<>>
              \/ Wanted(avail, loans, waiting, req[b].index) > 0
    ]_vars

\* C23 witness: acquire(p2) has just been served with a client built for it
\* while every client of another index p1 is borrowed.
C23_Witness ==
  /\ last.op = "acquired"
  /\ last.c = 2
  /\ \E p1 \in Partitions \ {last.p} : Exhausted(p1) /\ loans[p1] = {1}

\* ------------------------------------------------------------------ keys apart
\* the keys a command sent through client c sees
Visible(c) == store[sel[c]]

\* C24: with callers that issue no select, a client acquired for p2 sees no key
\* that was written through a client acquired for another index p1.
C24_KeysApart ==
  \A b \in Borrowers : \A c \in held[b] :
    \A p2 \in Partitions : c \in loans[p2] =>
      \A p1 \in Partitions \ {p2} : p1 \notin Visible(c)

\* C24 witness: keys were written through clients of both indexes, and a client
\* that was given back ready and reselected is borrowed again for index 1 and
\* sees the key of index 1.
C24_Witness ==
  /\ \A p \in Partitions : store[p] = {p}
  /\ last.op = "acquired"
  /\ last.p = 1
  /\ last.c = 1
  /\ created = 2
  /\ Visible(last.c) = {1}

\* ------------------------------------------------------------------ the registry
\* the step is an acquire call for index p
AcquireCalled(p) ==
  \/ \E b \in Borrowers : req[b].pc = "idle" /\ req'[b].pc = "waiting" /\ req'[b].index = p
  \/ last'.op = "acquire" /\ last'.p = p

\* the step is destroy's poolMap.delete(p), after drain and clear of p's pool
DestroyDeletes(p) == dpc = "racing" /\ dcur = p /\ DrainDone(p)

\* C25: the registry has at most one pool per index and no pool lives on beside
\* it (an index without entry has no clients and no queue, and no two indexes
\* share a pool); an acquire for a registered index uses the pool that is
\* there; an entry appears only in an acquire for its index, disappears only
\* in destroy, and no release adds or removes one.
C25_LazyRegistry ==
  [][ /\ \A p \in Partitions :
           /\ ~Registered(p) => avail[p] = <<>> /\ loans[p] = {} /\ waiting[p] = <<>>
           /\ \A q \in Partitions \ {p} : Registered(p) => poolId[q] # poolId[p]
           /\ (Registered(p) /\ AcquireCalled(p)) =>
                poolId'[p] = poolId[p] /\ nextPool' = nextPool
           /\ (~Registered(p) /\ Registered(p)') =>
                AcquireCalled(p) /\ poolId'[p] = nextPool'  /\ nextPool' = nextPool + 1
           /\ (Registered(p) /\ ~Registered(p)') => DestroyDeletes(p)
      /\ last'.op = "release" => poolId' = poolId /\ nextPool' = nextPool
    ]_vars

\* C25 witness: index 1 was registered, removed by destroy and registered again
\* by a later acquire, while index 0 has kept its pool and a release has just
\* been made to it.
C25_Witness ==
  /\ poolId[1] = 2
  /\ nextPool = 2
  /\ last.op = "release"
  /\ last.p = 1
  /\ last.res = "returned"
  /\ created = 2

\* ------------------------------------------------------------------ the store out of reach
\* C26 (as claimed): while the store cannot be reached, acquire resolves with no
\* client.
C26_NoClientWhileUnreachable == last.op # "acquired"

\* ------------------------------------------------------------------ construction
\* C27: createRedisPool with an empty url throws at once: the manager is never
\* returned, no pool is ever registered and no client is ever built.
C27_EmptyUrlFails ==
  made.url = "" =>
    /\ made.state \in {"new", "failed"}
    /\ \A p \in Partitions : ~Registered(p)
    /\ nextPool = 0
    /\ created = 0

\* C27 witness: the call with the empty url has thrown.
C27_Witness == made.url = "" /\ made.state = "failed"

\* ------------------------------------------------------------------ validate on borrow
\* the step is pool p dealing with the head of its idle clients for the head of
\* its queue
Dispatches(p) ==
  avail[p] # <<>> /\ waiting[p] # <<>> /\ avail'[p] = Tail(avail[p])

\* C28: with testOnBorrow a client is handed out only after its ping succeeded
\* and with status ready; an idle client that fails is taken out of the pool
\* and quit while the acquire stays queued, with no error, for another client
\* or one the pool builds. Without testOnBorrow the head client is handed out
\* whatever its state.
C28_ValidateOnBorrow ==
  [][ /\ (cfg.testOnBorrow /\ last'.op = "acquired") =>
           last'.probe = "ok" /\ status[last'.c] = "ready"
      /\ \A p \in Partitions :
           Dispatches(p) =>
             LET c == Head(avail[p])
                 b == Head(waiting[p])
             IN  IF cfg.testOnBorrow /\ status[c] # "ready"
                   THEN /\ c \notin PoolAllNext(p)
                        /\ status'[c] = "end"
                        /\ held' = held
                        /\ waiting'[p] = waiting[p]
                        /\ req'[b] = req[b]
                        /\ \/ avail'[p] # <<>>
                           \/ Wanted(avail', loans', waiting', p) > 0
                   ELSE IF ~cfg.testOnBorrow
                   THEN /\ held'[b] = held[b] \cup {c}
                        /\ last'.op = "acquired"
                        /\ last'.probe = ""
                        /\ status' = status
                   ELSE \/ held'[b] = held[b] \cup {c}
                        \/ /\ c \notin PoolAllNext(p)
                           /\ status'[c] = "end"
                           /\ waiting'[p] = waiting[p]
    ]_vars

\* C28 witness: with testOnBorrow the pool has discarded its client 1 and an
\* acquire has just been served, after a ping that succeeded, with the client
\* the pool built in its place.
C28_Witness ==
  /\ cfg.testOnBorrow
  /\ last.op = "acquired"
  /\ last.probe = "ok"
  /\ last.c = 2
  /\ status[1] = "end"
  /\ home[1] = last.p
  /\ \A b \in Borrowers : 1 \notin held[b]
  /\ loans[last.p] = {2}
  /\ avail[last.p] = <<>>

\* ------------------------------------------------------------------ getKeys
RECURSIVE Flat(_)
\* the keys of a sequence of batches, in order
Flat(rounds) == IF rounds = <<>> THEN <<>> ELSE Head(rounds) \o Flat(Tail(rounds))

\* C29: getKeys resolves only at the end of the scan, with exactly the keys of
\* all rounds in the order they were delivered; until then nothing is resolved.
C29_AllRoundsInOrder ==
  [][ scan'.op = "getKeys" =>
        /\ scan'.pc = "resolved" =>
             /\ scan'.keysOut = Flat(scan'.rounds)
             /\ scan.pc \in {"streaming", "resolved"}
             /\ scan.pc = "resolved" => scan' = scan
        /\ scan'.pc = "streaming" => scan'.keysOut = <<>>
    ]_vars

\* C29 witness: getKeys has resolved after three rounds, the second of them
\* empty, with the keys of the first and the third.
C29_Witness ==
  /\ scan.op = "getKeys"
  /\ scan.pc = "resolved"
  /\ scan.rounds = <<<<2, 1>>, <<>>, <<1>>>>
  /\ scan.keysOut = <<2, 1, 1>>

\* C30: an error of the scan at any round rejects getKeys and deleteKeys with
\* that error, for good; getKeys then returns no key of the earlier rounds.
C30_ScanErrorRejects ==
  /\ scan.errored =>
       /\ scan.pc = "rejected"
       /\ scan.failed
       /\ scan.keysOut = <<>>
       /\ scan.countOut = 0
  /\ scan.failed => scan.errored

\* C30 witness: getKeys was rejected by an error in the third round, after two
\* rounds that delivered keys.
C30_Witness ==
  /\ scan.op = "getKeys"
  /\ scan.pc = "rejected"
  /\ scan.errored
  /\ scan.failed
  /\ Len(scan.rounds) = 2
  /\ scan.allKeys = <<1, 2, 2>>
  /\ scan.keysOut = <<>>

\* ------------------------------------------------------------------ deleteKeys
RECURSIVE SumDone(_)
\* what the unlinks that succeeded answered, added up
SumDone(tasks) ==
  IF tasks = <<>> THEN 0
  ELSE (IF Head(tasks).state = "done" THEN Head(tasks).n ELSE 0) + SumDone(Tail(tasks))

\* the rounds that delivered keys
NonEmpty(rounds) == {r \in 1..Len(rounds) : rounds[r] # <<>>}

Removed == scan.base \ scan.present

C39_ResolvesAfterAllSettled ==
  [][ (scan'.op = "deleteKeys" /\ scan'.pc = "resolved") =>
        /\ scan.pc \in {"ended", "resolved"}
        /\ \A i \in 1..Len(scan'.tasks) : scan'.tasks[i].state # "pending"
        /\ Cardinality(NonEmpty(scan'.rounds)) = Len(scan'.tasks)
        /\ scan'.countOut = SumDone(scan'.tasks)
    ]_vars

\* C39 witness: deleteKeys has resolved with 2 after three batches whose unlinks
\* all succeeded.
C39_Witness ==
  /\ scan.op = "deleteKeys"
  /\ scan.pc = "resolved"
  /\ Len(scan.tasks) = 3
  /\ \A i \in 1..3 : scan.tasks[i].state = "done"
  /\ scan.countOut = 2

\* C40: an error of the scan rejects deleteKeys at once, with no count, leaving
\* the unlinks already issued as they are: they are neither awaited nor given up
\* (a pending one can still remove its keys) and no removed key ever comes back.
C40_RejectsWithoutWaitingOrUndoing ==
  [][ scan'.op = "deleteKeys" =>
        /\ (scan'.errored /\ ~scan.errored) =>
             /\ scan'.pc = "rejected"
             /\ scan'.tasks = scan.tasks
             /\ scan'.present = scan.present
        /\ scan'.pc = "rejected" => scan'.countOut = 0
        /\ scan.op = "deleteKeys" => scan'.present \subseteq scan.present
        /\ (scan.pc = "rejected" /\ scan.op = "deleteKeys") =>
             /\ Len(scan'.tasks) = Len(scan.tasks)
             /\ \A i \in 1..Len(scan.tasks) :
                  /\ scan'.tasks[i].keys = scan.tasks[i].keys
                  /\ scan.tasks[i].state # "pending" => scan'.tasks[i] = scan.tasks[i]
                  /\ (scan.tasks[i].state = "pending" /\ scan'.tasks[i].state = "done") =>
                       scan'.present = scan.present \ SeqToSet(scan.tasks[i].keys)
    ]_vars

\* C40 witness: deleteKeys was rejected after two batches while the unlink of the
\* second was still pending; the key of the first is gone, and the caller has no
\* count.
C40_Witness ==
  /\ scan.op = "deleteKeys"
  /\ scan.pc = "rejected"
  /\ scan.failed
  /\ Len(scan.tasks) = 2
  /\ scan.tasks[1].state = "done"
  /\ scan.tasks[2].state = "pending"
  /\ Removed = {1}
  /\ scan.countOut = 0

\* C33: with one pattern and no failing unlink, a getKeys that follows a
\* deleteKeys that resolved resolves with no key, whatever keys were there.
C33_SweepLeavesNothing ==
  ( /\ scan.op = "getKeys"
    /\ scan.pc = "resolved"
    /\ Len(scan.trail) >= 1
    /\ scan.trail[Len(scan.trail)].op = "deleteKeys"
    /\ scan.trail[Len(scan.trail)].match = scan.match
    /\ scan.trail[Len(scan.trail)].clean )
  => scan.keysOut = <<>>

\* C33 witness: getKeys resolved with two keys, deleteKeys with the same pattern
\* resolved with 2, and the getKeys after it has resolved with none.
C33_Witness ==
  /\ scan.op = "getKeys"
  /\ scan.pc = "resolved"
  /\ scan.keysOut = <<>>
  /\ Len(scan.trail) = 2
  /\ scan.trail[1] = [op |-> "getKeys", match |-> {1, 2}, clean |-> TRUE, n |-> 2]
  /\ scan.trail[2] = [op |-> "deleteKeys", match |-> {1, 2}, clean |-> TRUE, n |-> 2]

\* ------------------------------------------------------------------ client.on('error')
\* the connection of client c drops: the step that comes with its 'error' event
Drops(c) == status[c] = "ready" /\ status'[c] = "connecting"

\* C34: the 'error' event of a connection is raised into no caller: the step
\* changes only the status of that client. The registry, every pool's loans,
\* idle clients and queue, every pending acquire, what callers hold and a
\* running destroy are as before, and no call has failed by it.
C34_ErrorEventOnlyWarns ==
  [][ (\E c \in Conns : Drops(c)) =>
        /\ UNCHANGED <<poolId, nextPool, draining, avail, loans, waiting, orphan, lapsed>>
        /\ UNCHANGED <<held, req, dpc, dcur, created, home, sel>>
        /\ \A d \in Conns : Drops(d) \/ status'[d] = status[d]
        /\ last' = Other
    ]_vars

\* C34 witness: with testOnBorrow set, a client on loan has dropped after it was
\* handed out, while another caller waits for the same pool: the client is still
\* on loan and held, the other caller still queued.
C34_Witness ==
  /\ cfg.testOnBorrow
  /\ \E p \in Partitions, c \in Conns, b \in Borrowers :
       /\ c \in loans[p]
       /\ status[c] = "connecting"
       /\ c \in held[b]
       /\ \E b2 \in Borrowers \ {b} : req[b2].pc = "waiting" /\ req[b2].index = p

\* ------------------------------------------------------------------ factory.validate
\* C35: validate says true only when the ping ended well and the status it then
\* read is ready; a ping that errors or times out and a status other than ready
\* give false, and false is all that happens: the client is destroyed, the
\* acquire it was validated for is neither rejected nor served by this step.
C35_ValidateTrueOnlyIfPingedAndReady ==
  [][ /\ (last'.op = "acquired" /\ cfg.testOnBorrow) =>
           /\ last'.probe = "ok"
           /\ status[last'.c] = "ready"
      /\ last'.op = "evicted" =>
           /\ cfg.testOnBorrow
           /\ last'.st = status[last'.c]
           /\ last'.probe \in {"error", "timeout"} \/ last'.st # "ready"
           /\ status'[last'.c] = "end"
           /\ UNCHANGED <<req, waiting, held, loans>>
      /\ \A p \in Partitions :
           (cfg.testOnBorrow /\ Registered(p) /\ avail[p] # <<>> /\ avail'[p] = Tail(avail[p])) =>
              \/ last'.op = "acquired" /\ last'.c = Head(avail[p])
              \/ last'.op = "evicted" /\ last'.c = Head(avail[p])
    ]_vars

\* C35 witness: the ping of a ready client timed out, validate said false and
\* the client was destroyed while the acquire stays queued.
C35_Witness ==
  /\ last.op = "evicted"
  /\ last.probe = "timeout"
  /\ last.st = "ready"
  /\ status[last.c] = "end"
  /\ waiting[last.p] # <<>>

\* ------------------------------------------------------------------ after a timed-out destroy
\* C36: a destroy that times out on p leaves p's pool registered and draining;
\* a registered pool stays draining until a destroy removes its entry, and while
\* it is draining every acquire for it is rejected: none is queued, none served
\* that was not queued before, whether or not its clients have come back.
C36_DrainingPoolRejectsAcquire ==
  [][ /\ (last'.op = "destroy" /\ last'.res = "timeout") =>
           /\ poolId'[last'.p] = poolId[last'.p]
           /\ poolId'[last'.p] # 0
           /\ draining'[last'.p]
      /\ \A p \in Partitions :
           /\ (draining[p] /\ poolId[p] # 0 /\ poolId'[p] = poolId[p]) => draining'[p]
           /\ (draining[p] /\ poolId[p] # 0 /\ poolId'[p] # poolId[p]) =>
                dpc = "racing" /\ dcur = p /\ poolId'[p] = 0
           /\ (draining[p] /\ poolId[p] # 0) =>
                /\ Len(waiting'[p]) <= Len(waiting[p])
                /\ \A b \in Borrowers :
                     (req'[b].pc = "waiting" /\ req'[b].index = p) => req[b] = req'[b]
                /\ (last'.op = "acquired" /\ last'.p = p) =>
                     req[last'.b].pc = "waiting" /\ req[last'.b].index = p
      /\ (last'.op = "acquire" /\ draining[last'.p] /\ poolId[last'.p] # 0) =>
           last'.res = "draining"
    ]_vars

\* C36 witness: destroy timed out on pool p over a client on loan, the client
\* has been released since, no destroy is running, and an acquire for p has
\* just been rejected.
C36_Witness ==
  /\ last.op = "acquire"
  /\ last.res = "draining"
  /\ poolId[last.p] # 0
  /\ draining[last.p]
  /\ lapsed[last.p] # {}
  /\ loans[last.p] = {}
  /\ dpc = "idle"

\* ------------------------------------------------------------------ destroy and acquire side by side
\* C37: the step in which destroy completes leaves no pool registered and no
\* client in any pool, the pools registered while it ran included: whatever an
\* acquire registers during the iteration lies ahead of the iteration.
C37_RegistryEmptyAtCompletion ==
  [][ /\ (dpc = "racing" /\ last'.op = "destroy" /\ last'.res = "ok") =>
           /\ \A p \in Partitions :
                /\ poolId'[p] = 0
                /\ avail'[p] = <<>> /\ loans'[p] = {} /\ waiting'[p] = <<>>
           /\ \A c \in Conns : home[c] \in dh.fresh /\ c <= created => status'[c] = "end"
      /\ \A p \in Partitions :
           (dpc = "racing" /\ poolId[p] = 0 /\ poolId'[p] # 0) =>
             /\ dpc' = "racing"
             /\ poolId'[p] > poolId[dcur]
             /\ p \in dh'.fresh
    ]_vars

\* C37 witness: destroy has completed after an acquire registered a pool while
\* it ran; that pool had built a client, which is closed, and is gone.
C37_Witness ==
  /\ last.op = "destroy"
  /\ last.res = "ok"
  /\ \E p \in dh.fresh : \E c \in Conns : c <= created /\ home[c] = p /\ status[c] = "end"
  /\ \A p \in Partitions : poolId[p] = 0

\* ------------------------------------------------------------------ the sets of a pool
\* C38: in every registered pool no client is both on loan and idle, none is
\* idle twice, and every client on loan from or idle in the pool of index p was
\* built for p.
C38_PoolSetsSound ==
  \A p \in Partitions :
    Registered(p) =>
      /\ loans[p] \cap SeqToSet(avail[p]) = {}
      /\ \A i, j \in 1..Len(avail[p]) : avail[p][i] = avail[p][j] => i = j
      /\ \A c \in PoolAll(p) : c \in 1..created /\ home[c] = p

\* C38 witness: a release has just returned a client to a pool of index 1 that
\* has another client on loan.
C38_Witness ==
  /\ last.op = "release"
  /\ last.res = "returned"
  /\ last.p = 1
  /\ Registered(1)
  /\ last.c \in SeqToSet(avail[1])
  /\ loans[1] # {}

====
